---- MODULE Spec2Model ----
(***************************************************************************)
(* A model of rocks_svr: the VLESS codec (address, request header,        *)
(* response header), the prepend-on-first-write adapter UnsendDataWrite,  *)
(* and the byte-stream and message-stream relays with their drivers.      *)
(*                                                                         *)
(* Bytes are the naturals 0..255.  A Rust slice is a sequence; the Rust   *)
(* index i is the TLA+ index i+1.  A panic (index out of range, unwrap of *)
(* an Err, split_at past the end) is the outcome kind "Abort".            *)
(***************************************************************************)
EXTENDS Integers, Sequences, FiniteSets, TLC

VARIABLES
    \* ---- codec harness (SpecCodec) ----
    codec,      \* which codec the harness is exercising
    value,      \* the value handed to form
    orig,       \* the buffer as it was before form was called
    buffer,     \* the buffer after form / the bytes handed to parse
    formed,     \* result of the last form call
    parsed,     \* result of the last parse call
    cphase,     \* "idle" -> "formed" -> "wire" -> "parsed"
    \* ---- UnsendDataWrite and its caller (SpecAdapter) ----
    unsent,     \* Option<Vec<u8>>: [some, bytes]
    orig_size,  \* the adapter's orig_size field
    accepted,   \* every byte the inner writer has accepted, in order
    prepend,    \* the Option<&[u8]> the adapter was created with
    appDone,    \* how many application bytes the caller counts as written
    retryLen,   \* length of the buffer the caller must present again (0: none)
    lastCall,   \* the last poll_write: buffer length, inner outcome, returned value
    calls,      \* number of poll_write calls made
    aphase,     \* "off", "running", "failed" (error returned), "overrun" (count > buffer)
    \* ---- one connection: driver and relay (SpecDriver) ----
    transport,  \* "off", "tcp" (VlessProtocol::handle) or "ws" (handle_stream_sink)
    request,    \* the bytes the client would send: a request header, then payload
    pc,         \* where the connection task is
    result,     \* "running", or what the task ended with: "ok", "err", "panic"
    inbuf,      \* buffer[0..offset] (tcp) / data (ws)
    clientRead, \* how many bytes of request the task has received
    clientEof,  \* the client's stream has ended
    header,     \* the parse result the driver broke out of its loop with
    host,       \* the resolved addresses, then the one connected to
    wbuf,       \* what write_all / send still has to write
    targetRead, \* how many bytes of the target's stream the relay has read
    targetSeen, \* every byte the target socket has accepted, in order
    clientMsgs, \* ws: every message the client's sink has accepted, in order
    first,      \* ws: the `first` flag captured by the sink's closure
    closed,     \* which write halves a shutdown has completed on: [in, out]
    taken,      \* relay: the bytes each read half has returned: [in, out]
    acked,      \* relay: the bytes each direction's write half has acknowledged: [in, out]
    eof,        \* relay: which read half returned 0: "none", "in", "out"
    selects,    \* relay: how many times select! has issued the two reads
    stalls,     \* inner not-ready results met while the adapter held unsent bytes
    \* ---- the server: main() and its two accept loops (SpecServer) ----
    mainState,  \* "off", "select" (main awaits its select!), "exited"
    loops,      \* where each accept loop is: [tcp, ws]
    conns,      \* connections each listener has accepted: [tcp, ws]
    tasks,      \* connection tasks spawned and still running: [tcp, ws]
    failures,   \* failures confined to one connection, so far
    listenerFailed  \* a bind or an accept on a listener has failed

codecVars == <<codec, value, orig, buffer, formed, parsed, cphase>>

adapterVars == <<unsent, orig_size, accepted, prepend, appDone, retryLen, lastCall,
                 calls, aphase>>

driverVars == <<transport, request, pc, result, inbuf, clientRead, clientEof, header, host,
                wbuf, targetRead, targetSeen, clientMsgs, first, closed, taken, acked, eof,
                selects, stalls>>

\* the adapter fields the driver does not use
adapterGhost == <<prepend, appDone, retryLen, lastCall, calls, aphase>>

serverVars == <<mainState, loops, conns, tasks, failures, listenerFailed>>

vars == <<codecVars, adapterVars, driverVars, serverVars>>

\* ------------------------------------------------------------------------
\* Bounds of the model
\* ------------------------------------------------------------------------
MaxDomainLen == 2       \* longest domain drawn for a value (besides the Mux sentinel)
MaxSlack == 1           \* how many bytes longer than size() a form buffer may be
MaxPrepend == 2         \* longest prepend an adapter is created with
MaxStream == 3          \* length of the caller's application byte stream
MaxCalls == 5           \* poll_write calls made on one adapter
MaxPayload == 2         \* bytes the client sends after its request header
MaxTarget == 2          \* bytes the target sends
MaxStalls == 1          \* inner not-ready results while the adapter holds unsent bytes

\* ------------------------------------------------------------------------
\* BufferParseResult and Result<usize, E>
\* ------------------------------------------------------------------------
NoValue == [tag |-> "None"]

Parsed(v, n) == [kind |-> "Parsed", value |-> v, size |-> n, needed |-> 0, error |-> "none"]

Incomplete(n) == [kind |-> "Incomplete", value |-> NoValue, size |-> 0, needed |-> n, error |-> "none"]

ParseError(e) == [kind |-> "Error", value |-> NoValue, size |-> 0, needed |-> 0, error |-> e]

ParseAbort == [kind |-> "Abort", value |-> NoValue, size |-> 0, needed |-> 0, error |-> "panic"]

NoResult == [kind |-> "None", value |-> NoValue, size |-> 0, needed |-> 0, error |-> "none"]

\* A form outcome carries the buffer as the call leaves it.
FormOk(n, buf) == [kind |-> "Ok", size |-> n, error |-> "none", buffer |-> buf]

FormErr(e, buf) == [kind |-> "Err", size |-> 0, error |-> e, buffer |-> buf]

FormAbort(buf) == [kind |-> "Abort", size |-> 0, error |-> "panic", buffer |-> buf]

NoForm == [kind |-> "None", size |-> 0, error |-> "none", buffer |-> <<>>]

\* the codec harness before any call
CodecIdle ==
    /\ codec = "none"
    /\ value = NoValue
    /\ orig = <<>>
    /\ buffer = <<>>
    /\ formed = NoForm
    /\ parsed = NoResult
    /\ cphase = "idle"

\* the server is not running
ServerIdle ==
    /\ mainState = "off"
    /\ loops = [tcp |-> "off", ws |-> "off"]
    /\ conns = [tcp |-> 0, ws |-> 0]
    /\ tasks = [tcp |-> 0, ws |-> 0]
    /\ failures = 0
    /\ listenerFailed = FALSE

\* no connection
DriverIdle ==
    /\ transport = "off"
    /\ request = <<>>
    /\ pc = "off"
    /\ result = "running"
    /\ inbuf = <<>>
    /\ clientRead = 0
    /\ clientEof = FALSE
    /\ header = NoResult
    /\ host = <<>>
    /\ wbuf = <<>>
    /\ targetRead = 0
    /\ targetSeen = <<>>
    /\ clientMsgs = <<>>
    /\ first = TRUE
    /\ closed = [in |-> FALSE, out |-> FALSE]
    /\ taken = [in |-> <<>>, out |-> <<>>]
    /\ acked = [in |-> <<>>, out |-> <<>>]
    /\ eof = "none"
    /\ selects = 0
    /\ stalls = 0

\* buffer[off..off+len(bytes)].copy_from_slice(bytes), off counted from 0
CopyFromSlice(buf, off, bytes) ==
    [i \in 1..Len(buf) |->
        IF i > off /\ i <= off + Len(bytes) THEN bytes[i - off] ELSE buf[i]]

\* &buffer[from..], from counted from 0
SliceFrom(buf, from) == SubSeq(buf, from + 1, Len(buf))

\* ------------------------------------------------------------------------
\* std::str::from_utf8 as called on the domain bytes
\* ------------------------------------------------------------------------
IsCont(b) == b \in 128..191

RECURSIVE from_utf8_ok(_)
from_utf8_ok(s) ==
    IF s = <<>> THEN TRUE
    ELSE LET b == s[1]
             n == Len(s)
         IN  IF b < 128 THEN from_utf8_ok(Tail(s))
             ELSE IF b \in 194..223
                  THEN n >= 2 /\ IsCont(s[2]) /\ from_utf8_ok(SubSeq(s, 3, n))
             ELSE IF b \in 224..239
                  THEN /\ n >= 3
                       /\ IF b = 224 THEN s[2] \in 160..191
                          ELSE IF b = 237 THEN s[2] \in 128..159
                          ELSE IsCont(s[2])
                       /\ IsCont(s[3])
                       /\ from_utf8_ok(SubSeq(s, 4, n))
             ELSE IF b \in 240..244
                  THEN /\ n >= 4
                       /\ IF b = 240 THEN s[2] \in 144..191
                          ELSE IF b = 244 THEN s[2] \in 128..143
                          ELSE IsCont(s[2])
                       /\ IsCont(s[3])
                       /\ IsCont(s[4])
                       /\ from_utf8_ok(SubSeq(s, 5, n))
             ELSE FALSE

\* ------------------------------------------------------------------------
\* ProxyAddress
\* ------------------------------------------------------------------------
IPv4(octets) == [tag |-> "IPv4", bytes |-> octets]

Domain(bytes) == [tag |-> "Domain", bytes |-> bytes]

IPv6(octets) == [tag |-> "IPv6", bytes |-> octets]

\* the parser asking, below 3 bytes, for what the shortest IPv4 encoding
\* lacks instead of what 3 bytes lack
ProxyAddress_parse_needs_five(buf) ==
    IF Len(buf) < 3 THEN Incomplete(5 - Len(buf))
    ELSE IF buf[1] = 1 THEN
        IF Len(buf) < 5 THEN Incomplete(5 - Len(buf))
        ELSE Parsed(IPv4(SubSeq(buf, 2, 5)), 5)
    ELSE IF buf[1] = 2 THEN
        LET domain_len == buf[2]
        IN  IF Len(buf) < 2 + domain_len THEN Incomplete(2 + domain_len - Len(buf))
            ELSE IF ~from_utf8_ok(SubSeq(buf, 3, 2 + domain_len)) THEN ParseAbort
            ELSE Parsed(Domain(SubSeq(buf, 3, 2 + domain_len)), 2 + domain_len)
    ELSE IF buf[1] = 3 THEN
        IF Len(buf) < 17 THEN Incomplete(17 - Len(buf))
        ELSE Parsed(IPv6(SubSeq(buf, 2, 17)), 17)
    ELSE ParseError("InvalidAddressType")

\* the parser with `<=` for `<` in the domain arm's length test
ProxyAddress_parse_off_by_one(buf) ==
    IF Len(buf) < 3 THEN Incomplete(3 - Len(buf))
    ELSE IF buf[1] = 1 THEN
        IF Len(buf) < 5 THEN Incomplete(5 - Len(buf))
        ELSE Parsed(IPv4(SubSeq(buf, 2, 5)), 5)
    ELSE IF buf[1] = 2 THEN
        LET domain_len == buf[2]
        IN  IF Len(buf) <= 2 + domain_len THEN Incomplete(2 + domain_len - Len(buf))
            ELSE IF ~from_utf8_ok(SubSeq(buf, 3, 2 + domain_len)) THEN ParseAbort
            ELSE Parsed(Domain(SubSeq(buf, 3, 2 + domain_len)), 2 + domain_len)
    ELSE IF buf[1] = 3 THEN
        IF Len(buf) < 17 THEN Incomplete(17 - Len(buf))
        ELSE Parsed(IPv6(SubSeq(buf, 2, 17)), 17)
    ELSE ParseError("InvalidAddressType")

\* the parser whose IPv4 arm reports the whole buffer as consumed
ProxyAddress_parse_to_end(buf) ==
    IF Len(buf) < 3 THEN Incomplete(3 - Len(buf))
    ELSE IF buf[1] = 1 THEN
        IF Len(buf) < 5 THEN Incomplete(5 - Len(buf))
        ELSE Parsed(IPv4(SubSeq(buf, 2, 5)), Len(buf))
    ELSE IF buf[1] = 2 THEN
        LET domain_len == buf[2]
        IN  IF Len(buf) < 2 + domain_len THEN Incomplete(2 + domain_len - Len(buf))
            ELSE IF ~from_utf8_ok(SubSeq(buf, 3, 2 + domain_len)) THEN ParseAbort
            ELSE Parsed(Domain(SubSeq(buf, 3, 2 + domain_len)), 2 + domain_len)
    ELSE IF buf[1] = 3 THEN
        IF Len(buf) < 17 THEN Incomplete(17 - Len(buf))
        ELSE Parsed(IPv6(SubSeq(buf, 2, 17)), 17)
    ELSE ParseError("InvalidAddressType")

ProxyAddress_parse(buf) ==
    IF Len(buf) < 3 THEN Incomplete(3 - Len(buf))
    ELSE IF buf[1] = 1 THEN
        IF Len(buf) < 5 THEN Incomplete(5 - Len(buf))
        ELSE Parsed(IPv4(SubSeq(buf, 2, 5)), 5)
    ELSE IF buf[1] = 2 THEN
        LET domain_len == buf[2]
        IN  IF Len(buf) < 2 + domain_len THEN Incomplete(2 + domain_len - Len(buf))
            ELSE IF ~from_utf8_ok(SubSeq(buf, 3, 2 + domain_len)) THEN ParseAbort
            ELSE Parsed(Domain(SubSeq(buf, 3, 2 + domain_len)), 2 + domain_len)
    ELSE IF buf[1] = 3 THEN
        IF Len(buf) < 17 THEN Incomplete(17 - Len(buf))
        ELSE Parsed(IPv6(SubSeq(buf, 2, 17)), 17)
    ELSE ParseError("InvalidAddressType")

ProxyAddress_size(v) ==
    IF v.tag = "IPv4" THEN 5
    ELSE IF v.tag = "Domain" THEN 2 + Len(v.bytes)
    ELSE 17

ProxyAddress_form(v, buf) ==
    IF v.tag = "IPv4" THEN
        IF Len(buf) < 5 THEN FormErr("InsufficientBuffer", buf)
        ELSE FormOk(5, CopyFromSlice(CopyFromSlice(buf, 0, <<1>>), 1, v.bytes))
    ELSE IF v.tag = "Domain" THEN
        LET domain_len == Len(v.bytes)
        IN  IF Len(buf) < 2 + domain_len THEN FormErr("InsufficientBuffer", buf)
            ELSE FormOk(2 + domain_len,
                        CopyFromSlice(CopyFromSlice(buf, 0, <<2, domain_len % 256>>),
                                      2, v.bytes))
    ELSE
        IF Len(buf) < 17 THEN FormErr("InsufficientBuffer", buf)
        ELSE FormOk(17, CopyFromSlice(CopyFromSlice(buf, 0, <<3>>), 1, v.bytes))

\* ------------------------------------------------------------------------
\* ProxyAddressWithPort
\* ------------------------------------------------------------------------
AddressWithPort(a, p) == [address |-> a, port |-> p]

u16_from_be_bytes(b) == b[1] * 256 + b[2]

u16_to_be_bytes(p) == <<p \div 256, p % 256>>

ProxyAddressWithPort_parse(buf) ==
    IF Len(buf) < 3 THEN Incomplete(3 - Len(buf))
    ELSE LET port == u16_from_be_bytes(SubSeq(buf, 1, 2))
             address == ProxyAddress_parse(SliceFrom(buf, 2))
         IN  IF address.kind = "Parsed"
             THEN Parsed(AddressWithPort(address.value, port), address.size + 2)
             ELSE address

ProxyAddressWithPort_size(v) == 2 + ProxyAddress_size(v.address)

ProxyAddressWithPort_form(v, buf) ==
    IF Len(buf) < 2 THEN FormErr("InsufficientBuffer", buf)
    ELSE LET withPort == CopyFromSlice(buf, 0, u16_to_be_bytes(v.port))
             inner == ProxyAddress_form(v.address, SliceFrom(withPort, 2))
             whole == SubSeq(withPort, 1, 2) \o inner.buffer
         IN  IF inner.kind = "Ok" THEN FormOk(2 + inner.size, whole)
             ELSE [inner EXCEPT !.buffer = whole]

\* ------------------------------------------------------------------------
\* VlessRequestHeader
\* ------------------------------------------------------------------------
RequestHeader(a, u, c) == [address |-> a, user |-> u, command |-> c]

\* "v1.mux.cool"
MuxCool == <<118, 49, 46, 109, 117, 120, 46, 99, 111, 111, 108>>

MuxDestination == AddressWithPort(Domain(MuxCool), 0)

\* the parser comparing the user with the identity VlessProtocol::new("test")
\* holds, and refusing any other
VlessRequestHeader_parse_checks_user(buf, is_fb) ==
    LET min_size_before_cmd == (IF is_fb THEN 2 ELSE 1) * 17
        min_size == min_size_before_cmd + 1
        user_id == <<116, 101, 115, 116>> \o [i \in 1..12 |-> 0]
    IN  IF Len(buf) < min_size THEN Incomplete(min_size - Len(buf) + 1)
        ELSE IF buf[1] # 0 THEN ParseError("InvalidVersion")
        ELSE IF SubSeq(buf, 2, 17) # user_id THEN ParseError("InvalidUser")
        ELSE IF buf[18] # 0 THEN ParseError("AddonIsNotSupported")
        ELSE IF Len(buf) < min_size + 1 THEN ParseAbort
        ELSE LET user == SubSeq(buf, 2, 17)
                 cmd == buf[min_size + 1]
                 command == IF cmd = 1 THEN "Tcp" ELSE IF cmd = 2 THEN "Udp" ELSE "Mux"
                 address == IF cmd = 3 THEN Parsed(MuxDestination, 0)
                            ELSE ProxyAddressWithPort_parse(SliceFrom(buf, min_size + 1))
             IN  IF cmd \notin {1, 2, 3} THEN ParseError("InvalidCommand")
                 ELSE IF address.kind = "Parsed"
                      THEN Parsed(RequestHeader(address.value, user, command),
                                  min_size + 1 + address.size)
                 ELSE IF address.kind = "Incomplete" THEN Incomplete(address.needed)
                 ELSE IF address.kind = "Error" THEN ParseError("InvalidAddress")
                 ELSE ParseAbort

\* the parser with its first two checks exchanged: the addon length is
\* tested before the version
VlessRequestHeader_parse_addon_first(buf, is_fb) ==
    LET min_size_before_cmd == (IF is_fb THEN 2 ELSE 1) * 17
        min_size == min_size_before_cmd + 1
    IN  IF Len(buf) < min_size THEN Incomplete(min_size - Len(buf) + 1)
        ELSE IF buf[18] # 0 THEN ParseError("AddonIsNotSupported")
        ELSE IF buf[1] # 0 THEN ParseError("InvalidVersion")
        ELSE IF Len(buf) < min_size + 1 THEN ParseAbort
        ELSE LET user == SubSeq(buf, 2, 17)
                 cmd == buf[min_size + 1]
                 command == IF cmd = 1 THEN "Tcp" ELSE IF cmd = 2 THEN "Udp" ELSE "Mux"
                 address == IF cmd = 3 THEN Parsed(MuxDestination, 0)
                            ELSE ProxyAddressWithPort_parse(SliceFrom(buf, min_size + 1))
             IN  IF cmd \notin {1, 2, 3} THEN ParseError("InvalidCommand")
                 ELSE IF address.kind = "Parsed"
                      THEN Parsed(RequestHeader(address.value, user, command),
                                  min_size + 1 + address.size)
                 ELSE IF address.kind = "Incomplete" THEN Incomplete(address.needed)
                 ELSE IF address.kind = "Error" THEN ParseError("InvalidAddress")
                 ELSE ParseAbort

VlessRequestHeader_parse_with_options(buf, is_fb) ==
    LET min_size_before_cmd == (IF is_fb THEN 2 ELSE 1) * 17
        min_size == min_size_before_cmd + 1
    IN  IF Len(buf) < min_size THEN Incomplete(min_size - Len(buf) + 1)
        ELSE IF buf[1] # 0 THEN ParseError("InvalidVersion")
        ELSE IF buf[18] # 0 THEN ParseError("AddonIsNotSupported")
        ELSE IF Len(buf) < min_size + 1 THEN ParseAbort      \* buffer[min_size] out of range
        ELSE LET user == SubSeq(buf, 2, 17)
                 cmd == buf[min_size + 1]
                 command == IF cmd = 1 THEN "Tcp" ELSE IF cmd = 2 THEN "Udp" ELSE "Mux"
                 address == IF cmd = 3 THEN Parsed(MuxDestination, 0)
                            ELSE ProxyAddressWithPort_parse(SliceFrom(buf, min_size + 1))
             IN  IF cmd \notin {1, 2, 3} THEN ParseError("InvalidCommand")
                 ELSE IF address.kind = "Parsed"
                      THEN Parsed(RequestHeader(address.value, user, command),
                                  min_size + 1 + address.size)
                 ELSE IF address.kind = "Incomplete" THEN Incomplete(address.needed)
                 ELSE IF address.kind = "Error" THEN ParseError("InvalidAddress")
                 ELSE ParseAbort

VlessRequestHeader_parse(buf) == VlessRequestHeader_parse_with_options(buf, FALSE)

VlessRequestHeader_size(v) == 18 + 1 + ProxyAddressWithPort_size(v.address)

CommandByte(c) == IF c = "Tcp" THEN 1 ELSE IF c = "Udp" THEN 2 ELSE 3

VlessRequestHeader_form(v, buf) ==
    IF Len(buf) < VlessRequestHeader_size(v) THEN FormErr("InsufficientBuffer", buf)
    ELSE LET head == CopyFromSlice(buf, 0,
                        <<0>> \o v.user \o <<0>> \o <<CommandByte(v.command)>>)
             inner == ProxyAddressWithPort_form(v.address, SliceFrom(head, 19))
             whole == SubSeq(head, 1, 19) \o inner.buffer
         IN  IF inner.kind = "Ok" THEN FormOk(19 + inner.size, whole)
             ELSE [inner EXCEPT !.buffer = whole]

\* ------------------------------------------------------------------------
\* VlessResponseHeader
\* ------------------------------------------------------------------------
ResponseHeader == [tag |-> "VlessResponseHeader"]

\* the parser without its test of the addon length byte
VlessResponseHeader_parse_no_addon_test(buf) ==
    IF Len(buf) < 2 THEN Incomplete(2 - Len(buf))
    ELSE IF buf[1] # 0 THEN ParseError("InvalidVersion")
    ELSE Parsed(ResponseHeader, 2)

VlessResponseHeader_parse(buf) ==
    IF Len(buf) < 2 THEN Incomplete(2 - Len(buf))
    ELSE IF buf[1] # 0 THEN ParseError("InvalidVersion")
    ELSE IF buf[2] # 0 THEN ParseError("AddonIsNotSupported")
    ELSE Parsed(ResponseHeader, 2)

VlessResponseHeader_size(v) == 2

VlessResponseHeader_form(v, buf) ==
    IF Len(buf) < 1 THEN FormAbort(buf)                               \* buffer[0] = 0x00
    ELSE IF Len(buf) < 2 THEN FormAbort(CopyFromSlice(buf, 0, <<0>>)) \* buffer[1] = 0x00
    ELSE FormOk(2, CopyFromSlice(buf, 0, <<0, 0>>))

\* ------------------------------------------------------------------------
\* UnsendDataWrite
\* ------------------------------------------------------------------------
None == [some |-> FALSE, bytes |-> <<>>]

Some(bytes) == [some |-> TRUE, bytes |-> bytes]

\* outcomes of a poll_write
Ready(n) == [kind |-> "Ready", n |-> n]

Pending == [kind |-> "Pending", n |-> 0]

IoErr == [kind |-> "Err", n |-> 0]

\* UnsendDataWrite::new(writer, unsent)
UnsendDataWrite_new(p) ==
    [unsent |-> p, orig_size |-> IF p.some THEN Len(p.bytes) ELSE 0]

\* the bytes poll_write hands to the inner writer when called with buf
Presented(self, buf) == IF self.unsent.some THEN self.unsent.bytes \o buf ELSE buf

\* UnsendDataWrite::poll_write(buf), the inner writer answering `inner` to the
\* bytes Presented(self, buf): the adapter's fields afterwards and the value
\* returned to the caller
UnsendDataWrite_poll_write(self, buf, inner) ==
    IF self.unsent.some THEN
        LET extended == self.unsent.bytes \o buf
        IN  IF inner.kind = "Ready" THEN
                LET n == inner.n
                    left == IF n < Len(extended)
                            THEN Some(SubSeq(extended, n + 1, Len(extended)))
                            ELSE None
                IN  IF n < self.orig_size
                    THEN [unsent |-> left, orig_size |-> self.orig_size - n, ret |-> Pending]
                    ELSE [unsent |-> left, orig_size |-> self.orig_size,
                          ret |-> Ready(n - self.orig_size)]
            ELSE [unsent |-> Some(extended), orig_size |-> self.orig_size, ret |-> inner]
    ELSE [unsent |-> self.unsent, orig_size |-> self.orig_size, ret |-> inner]

\* what the inner writer may answer to a write of `bytes`
InnerOutcomes(bytes) == {Pending, IoErr} \cup {Ready(n) : n \in 1..Len(bytes)}

\* ------------------------------------------------------------------------
\* A caller of the adapter that follows the write contract: it writes its
\* application stream in order, presents the same bytes again after a
\* not-ready, and advances by the returned count after an accepted write.
\* ------------------------------------------------------------------------
AppStream == [i \in 1..MaxStream |-> 9 + i]

Prepends == {None} \cup {Some([i \in 1..n |-> 0]) : n \in 0..MaxPrepend}

NoCall == [len |-> 0, inner |-> Pending, ret |-> Pending, shown |-> <<>>]

AdapterIdle ==
    /\ unsent = None
    /\ orig_size = 0
    /\ accepted = <<>>
    /\ prepend = None
    /\ appDone = 0
    /\ retryLen = 0
    /\ lastCall = NoCall
    /\ calls = 0
    /\ aphase = "off"

\* UnsendDataWrite::new(writer, prepend), nothing written yet
AdapterStart ==
    /\ prepend \in Prepends
    /\ unsent = UnsendDataWrite_new(prepend).unsent
    /\ orig_size = UnsendDataWrite_new(prepend).orig_size
    /\ accepted = <<>>
    /\ appDone = 0
    /\ retryLen = 0
    /\ lastCall = NoCall
    /\ calls = 0
    /\ aphase = "running"

\* one poll_write(buf) with buf the next len application bytes
PollWrite(len, inner) ==
    LET self == [unsent |-> unsent, orig_size |-> orig_size]
        buf == SubSeq(AppStream, appDone + 1, appDone + len)
        after == UnsendDataWrite_poll_write(self, buf, inner)
    IN  /\ aphase = "running"
        /\ calls < MaxCalls
        /\ len \in 1..(MaxStream - appDone)
        /\ retryLen # 0 => len = retryLen
        /\ inner \in InnerOutcomes(Presented(self, buf))
        /\ unsent' = after.unsent
        /\ orig_size' = after.orig_size
        /\ accepted' = IF inner.kind = "Ready"
                       THEN accepted \o SubSeq(Presented(self, buf), 1, inner.n)
                       ELSE accepted
        /\ lastCall' = [len |-> len, inner |-> inner, ret |-> after.ret,
                        shown |-> Presented(self, buf)]
        /\ calls' = calls + 1
        /\ retryLen' = IF after.ret.kind = "Pending" THEN len ELSE 0
        /\ appDone' = IF after.ret.kind = "Ready" /\ after.ret.n <= len
                      THEN appDone + after.ret.n ELSE appDone
        /\ aphase' = IF after.ret.kind = "Err" THEN "failed"
                     ELSE IF after.ret.kind = "Ready" /\ after.ret.n > len THEN "overrun"
                     ELSE "running"
        /\ UNCHANGED <<prepend, codecVars, driverVars, serverVars>>

AdapterNext ==
    \E len \in 1..(MaxStream - appDone) :
        \E inner \in InnerOutcomes(Presented([unsent |-> unsent, orig_size |-> orig_size],
                                             SubSeq(AppStream, appDone + 1, appDone + len))) :
            PollWrite(len, inner)

AdapterInit == AdapterStart /\ CodecIdle /\ DriverIdle /\ ServerIdle

SpecAdapter == AdapterInit /\ [][AdapterNext]_vars

\* the prepend bytes followed by the application stream
PrependThenStream == (IF prepend.some THEN prepend.bytes ELSE <<>>) \o AppStream

IsPrefix(s, t) == Len(s) <= Len(t) /\ SubSeq(t, 1, Len(s)) = s

\* C1: whatever the inner writer accepts or refuses, the bytes it has accepted
\* are at every moment a prefix of P ++ W.
C1_InnerSeesPrependThenStream == aphase # "off" => IsPrefix(accepted, PrependThenStream)

\* ------------------------------------------------------------------------
\* Codec harness: a value is formed into a buffer, a prefix of the formed
\* bytes arrives on the wire (at most one byte of it altered), and the wire
\* bytes are parsed; or bytes that no form call produced arrive and are
\* parsed.
\* ------------------------------------------------------------------------
CodecNames == {"ProxyAddress", "ProxyAddressWithPort", "VlessRequestHeader",
               "VlessResponseHeader"}

Letters(n) == [i \in 1..n |-> 96 + i]          \* "a", "ab", "abc", ...

Domains == {Letters(n) : n \in 0..MaxDomainLen}
           \cup {<<195, 169>>}                  \* one two-byte UTF-8 scalar
           \cup {MuxCool}

\* the longest domain whose length a u8 holds
LongDomain == [i \in 1..255 |-> 97]

Addresses == {IPv4(<<192, 168, 1, 1>>)}
             \cup {IPv6(<<32, 1, 13, 184, 133, 163, 0, 0, 0, 0, 138, 46, 3, 112, 115, 52>>)}
             \cup {Domain(d) : d \in Domains}

Ports == {0, 443}

AddressesWithPort == {AddressWithPort(a, p) : a \in Addresses, p \in Ports}

Users == {[i \in 1..16 |-> 0], [i \in 1..16 |-> 16 * i - 1]}

Commands == {"Tcp", "Udp", "Mux"}

RequestHeaders == {RequestHeader(a, u, c) : a \in AddressesWithPort, u \in Users, c \in Commands}

ValuesOf(c) ==
    IF c = "ProxyAddress" THEN Addresses \cup {Domain(LongDomain)}
    ELSE IF c = "ProxyAddressWithPort" THEN AddressesWithPort
    ELSE IF c = "VlessRequestHeader" THEN RequestHeaders
    ELSE {ResponseHeader}

SizeOf(c, v) ==
    IF c = "ProxyAddress" THEN ProxyAddress_size(v)
    ELSE IF c = "ProxyAddressWithPort" THEN ProxyAddressWithPort_size(v)
    ELSE IF c = "VlessRequestHeader" THEN VlessRequestHeader_size(v)
    ELSE VlessResponseHeader_size(v)

FormBy(c, v, buf) ==
    IF c = "ProxyAddress" THEN ProxyAddress_form(v, buf)
    ELSE IF c = "ProxyAddressWithPort" THEN ProxyAddressWithPort_form(v, buf)
    ELSE IF c = "VlessRequestHeader" THEN VlessRequestHeader_form(v, buf)
    ELSE VlessResponseHeader_form(v, buf)

ParseBy(c, buf) ==
    IF c = "ProxyAddress" THEN ProxyAddress_parse(buf)
    ELSE IF c = "ProxyAddressWithPort" THEN ProxyAddressWithPort_parse(buf)
    ELSE IF c = "VlessRequestHeader" THEN VlessRequestHeader_parse(buf)
    ELSE VlessResponseHeader_parse(buf)

\* A caller's buffer before form: no byte of it is one form would write there.
FreshBuffer(n) == [i \in 1..n |-> 170]

\* Offsets (from 0) at which the wire bytes may be altered, and the bytes put there.
AlterAt(c) ==
    IF c = "ProxyAddress" THEN {0, 1, 2}                      \* tag, length, first byte
    ELSE IF c = "ProxyAddressWithPort" THEN {2, 3, 4}
    ELSE IF c = "VlessRequestHeader" THEN {0, 17, 18, 21, 22, 23}
    ELSE {0, 1}

AlterTo == {0, 4, 255}

\* every prefix of s, s included
Prefixes(s) == {SubSeq(s, 1, k) : k \in 0..Len(s)}

\* address encodings as a peer may send them: well formed, with a trailing
\* byte, with an unknown tag, with a length byte that promises more than
\* follows, with domain bytes that are not UTF-8
RawAddresses ==
    {<<1, 192, 168, 1, 1>>, <<1, 192, 168, 1, 1, 7>>,
     <<2, 0>>, <<2, 0, 7>>, <<2, 1, 97>>, <<2, 1, 255>>, <<2, 2, 195, 169>>,
     <<2, 2, 97, 255>>, <<2, 3, 97, 98>>,
     <<3>> \o [i \in 1..16 |-> 16 * i - 1], <<3>> \o [i \in 1..16 |-> 16 * i - 1] \o <<9>>,
     <<4, 0, 0>>, <<0, 0, 0, 0>>, <<255, 1, 2>>}

\* request headers as a peer may send them: any version, addon length and
\* command byte in front of any address
RawRequests ==
    {<<ver>> \o [i \in 1..16 |-> 16 * i - 1] \o <<addon, cmd, 1, 187>> \o a :
        ver \in {0, 1}, addon \in {0, 1}, cmd \in 0..4, a \in RawAddresses}

\* the buffers a parser of codec c may be handed
RawBuffers(c) ==
    IF c = "ProxyAddress" THEN UNION {Prefixes(a) : a \in RawAddresses}
    ELSE IF c = "ProxyAddressWithPort"
         THEN UNION {Prefixes(<<1, 187>> \o a) : a \in RawAddresses}
    ELSE IF c = "VlessRequestHeader" THEN UNION {Prefixes(r) : r \in RawRequests}
    ELSE UNION {[1..n -> {0, 1}] : n \in 0..3}

\* bytes arrive that the harness did not form
Receive(c, buf) ==
    /\ cphase = "idle"
    /\ codec' = c
    /\ buffer' = buf
    /\ cphase' = "raw"
    /\ UNCHANGED <<value, orig, formed, parsed, adapterVars, driverVars, serverVars>>

\* v.form(&mut buffer) on a caller's buffer of n bytes
Form(c, v, n) ==
    /\ cphase = "idle"
    /\ codec' = c
    /\ value' = v
    /\ orig' = FreshBuffer(n)
    /\ formed' = FormBy(c, v, FreshBuffer(n))
    /\ buffer' = formed'.buffer
    /\ cphase' = "formed"
    /\ UNCHANGED <<parsed, adapterVars, driverVars, serverVars>>

\* the first k formed bytes have arrived
Take(k) ==
    /\ cphase = "formed"
    /\ formed.kind = "Ok"
    /\ k \in 0..Len(buffer)
    /\ buffer' = SubSeq(buffer, 1, k)
    /\ cphase' = "wire"
    /\ UNCHANGED <<codec, value, orig, formed, parsed, adapterVars, driverVars, serverVars>>

\* one arrived byte differs from the formed one
Alter(i, b) ==
    /\ cphase = "wire"
    /\ i < Len(buffer)
    /\ buffer[i + 1] # b
    /\ buffer' = [buffer EXCEPT ![i + 1] = b]
    /\ cphase' = "altered"
    /\ UNCHANGED <<codec, value, orig, formed, parsed, adapterVars, driverVars, serverVars>>

\* T::parse(&buffer)
Parse ==
    /\ cphase \in {"wire", "altered", "raw"}
    /\ parsed' = ParseBy(codec, buffer)
    /\ cphase' = IF cphase = "wire" THEN "parsed"
                 ELSE IF cphase = "altered" THEN "parsedAltered" ELSE "parsedRaw"
    /\ UNCHANGED <<codec, value, orig, buffer, formed, adapterVars, driverVars, serverVars>>

CodecNext ==
    \/ \E c \in CodecNames : \E v \in ValuesOf(c) :
          \E n \in 0..(SizeOf(c, v) + MaxSlack) : Form(c, v, n)
    \/ \E c \in CodecNames : \E buf \in RawBuffers(c) : Receive(c, buf)
    \/ \E k \in 0..Len(buffer) : Take(k)
    \/ \E i \in AlterAt(codec), b \in AlterTo : Alter(i, b)
    \/ Parse

CodecInit == CodecIdle /\ AdapterIdle /\ DriverIdle /\ ServerIdle

SpecCodec == CodecInit /\ [][CodecNext]_vars

\* ------------------------------------------------------------------------
\* Claims about the codec (checked under SpecCodec)
\* ------------------------------------------------------------------------
\* the value was formed into a buffer of exactly size() bytes
FormedExactly ==
    cphase \notin {"idle", "raw", "parsedRaw"} /\ Len(orig) = SizeOf(codec, value)

\* the complete wire encoding of the request header that was formed: the
\* formed bytes, without the address when the command is Mux
HeaderEncoding ==
    IF value.command = "Mux" THEN SubSeq(formed.buffer, 1, 19) ELSE formed.buffer

\* C3: every proper prefix of a complete request-header encoding E parses to
\* Incomplete (never Parsed, never an abort), and E itself parses to Parsed
\* with size len(E).
C3_PrefixesIncompleteThenParsed ==
    (cphase = "parsed" /\ codec = "VlessRequestHeader" /\ FormedExactly
        /\ formed.kind = "Ok" /\ Len(buffer) <= Len(HeaderEncoding))
    => IF Len(buffer) < Len(HeaderEncoding)
       THEN parsed.kind = "Incomplete"
       ELSE parsed.kind = "Parsed" /\ parsed.size = Len(HeaderEncoding)

\* C4: a buffer of fewer than 19 bytes, whatever it holds, parses to Incomplete
\* (so no byte outside the buffer is read).
C4_Below19Incomplete ==
    (cphase \in {"parsed", "parsedAltered", "parsedRaw"} /\ codec = "VlessRequestHeader"
        /\ Len(buffer) < 19)
    => parsed.kind = "Incomplete"

\* C5: an address (with or without port) formed into a buffer of exactly
\* size(v) bytes parses back to Parsed{v, size(v)}.
C5_AddressRoundTrip ==
    (cphase = "parsed" /\ codec \in {"ProxyAddress", "ProxyAddressWithPort"}
        /\ FormedExactly /\ buffer = formed.buffer)
    => /\ formed.kind = "Ok"
       /\ formed.size = SizeOf(codec, value)
       /\ parsed = Parsed(value, SizeOf(codec, value))

\* C6: a Tcp or Udp request header forms into 19 + destination.size() bytes,
\* which parse back to the same command, user and destination with that size.
C6_RequestRoundTrip ==
    (cphase = "parsed" /\ codec = "VlessRequestHeader" /\ FormedExactly
        /\ value.command \in {"Tcp", "Udp"} /\ buffer = formed.buffer)
    => /\ formed.kind = "Ok"
       /\ formed.size = 19 + ProxyAddressWithPort_size(value.address)
       /\ parsed = Parsed(value, 19 + ProxyAddressWithPort_size(value.address))

\* C7: for a Mux request header size() is 19, form writes exactly 19 bytes and
\* no address, and those 19 bytes parse to Mux, "v1.mux.cool":0, size 19.
C7_MuxIs19Bytes ==
    (codec = "VlessRequestHeader" /\ cphase \notin {"idle", "raw", "parsedRaw"}
        /\ value.command = "Mux")
    => /\ VlessRequestHeader_size(value) = 19
       /\ (Len(orig) >= 19) => /\ formed.kind = "Ok"
                               /\ formed.size = 19
                               /\ SliceFrom(formed.buffer, 19) = SliceFrom(orig, 19)
       /\ (cphase = "parsed" /\ Len(buffer) = 19)
            => parsed = Parsed(RequestHeader(MuxDestination, value.user, "Mux"), 19)

\* C8: form into a buffer shorter than size() returns InsufficientBuffer and
\* leaves every byte of the buffer as it was.
C8_ShortBufferUntouched ==
    (cphase = "formed" /\ Len(orig) < SizeOf(codec, value))
    => /\ formed.kind = "Err"
       /\ formed.error = "InsufficientBuffer"
       /\ buffer = orig

\* the parse has been applied to the bytes in `buffer`
WasParsed == cphase \in {"parsed", "parsedAltered", "parsedRaw"}

\* C16: on a buffer of at least 19 bytes VlessRequestHeader::parse returns the
\* first failing check in the order version, addon length, command, and for
\* Tcp and Udp returns InvalidAddress exactly when the address-with-port
\* parse of buf[19..] returns an error.
C16_ChecksInOrder ==
    (WasParsed /\ codec = "VlessRequestHeader" /\ Len(buffer) >= 19)
    => IF buffer[1] # 0 THEN parsed = ParseError("InvalidVersion")
       ELSE IF buffer[18] # 0 THEN parsed = ParseError("AddonIsNotSupported")
       ELSE IF buffer[19] \notin {1, 2, 3} THEN parsed = ParseError("InvalidCommand")
       ELSE IF buffer[19] = 3 THEN parsed.kind # "Error"
       ELSE (parsed.kind = "Error"
                <=> ProxyAddressWithPort_parse(SliceFrom(buffer, 19)).kind = "Error")
            /\ (parsed.kind = "Error" => parsed = ParseError("InvalidAddress"))

\* C16 witness: a buffer in which the version, the addon length, the command
\* and the address are all bad was parsed, and the version was reported.
C16_Witness ==
    /\ WasParsed /\ codec = "VlessRequestHeader" /\ Len(buffer) >= 22
    /\ buffer[1] # 0 /\ buffer[18] # 0 /\ buffer[19] = 0 /\ buffer[22] = 4
    /\ parsed = ParseError("InvalidVersion")

\* the wire-format table of an address: what a buffer of at least 3 bytes
\* stands for
AddressTableSize(buf) ==
    IF buf[1] = 1 THEN 5 ELSE IF buf[1] = 2 THEN 2 + buf[2] ELSE 17

AddressTableValue(buf) ==
    IF buf[1] = 1 THEN IPv4(SubSeq(buf, 2, 5))
    ELSE IF buf[1] = 2 THEN Domain(SubSeq(buf, 3, 2 + buf[2]))
    ELSE IPv6(SubSeq(buf, 2, 17))

\* C17: on every buffer of at least 3 bytes ProxyAddress::parse agrees with
\* the wire-format table: the tagged value with its size, Incomplete with
\* exactly the missing number of bytes when the buffer is shorter than the
\* arm's total size, InvalidAddressType for any other tag.
C17_AddressParseFollowsTable ==
    (WasParsed /\ codec = "ProxyAddress" /\ Len(buffer) >= 3)
    => IF buffer[1] \notin {1, 2, 3} THEN parsed = ParseError("InvalidAddressType")
       ELSE IF Len(buffer) < AddressTableSize(buffer)
            THEN parsed = Incomplete(AddressTableSize(buffer) - Len(buffer))
       ELSE parsed = Parsed(AddressTableValue(buffer), AddressTableSize(buffer))

\* C18: VlessResponseHeader::form into a buffer of at least 2 bytes writes
\* 0x00,0x00 into its first two bytes and returns 2; parse returns Incomplete
\* below 2 bytes, InvalidVersion for a non-zero first byte, otherwise
\* AddonIsNotSupported for a non-zero second byte, otherwise Parsed with
\* size 2.
C18_ResponseHeaderCodec ==
    codec = "VlessResponseHeader"
    => /\ (cphase = "formed" /\ Len(orig) >= 2)
            => /\ formed.kind = "Ok" /\ formed.size = 2
               /\ Len(buffer) = Len(orig)
               /\ SubSeq(buffer, 1, 2) = <<0, 0>>
       /\ WasParsed
            => IF Len(buffer) < 2 THEN parsed.kind = "Incomplete"
               ELSE IF buffer[1] # 0 THEN parsed = ParseError("InvalidVersion")
               ELSE IF buffer[2] # 0 THEN parsed = ParseError("AddonIsNotSupported")
               ELSE parsed = Parsed(ResponseHeader, 2)

\* C18 witness: a response header formed into a 3-byte buffer arrived with
\* its second byte altered and was refused for its addon length.
C18_Witness ==
    /\ codec = "VlessResponseHeader" /\ cphase = "parsedAltered"
    /\ Len(orig) = 3 /\ formed.kind = "Ok" /\ Len(buffer) = 3
    /\ buffer[1] = 0 /\ buffer[2] # 0
    /\ parsed = ParseError("AddonIsNotSupported")

\* C19: whatever buffer any of the four parsers is given, a Parsed result has
\* size <= buffer.len() and an Incomplete result has needed >= 1.
C19_SizeAndNeededBounds ==
    WasParsed
    => /\ parsed.kind = "Parsed" => parsed.size <= Len(buffer)
       /\ parsed.kind = "Incomplete" => parsed.needed >= 1

\* C19 witness: a request header whose domain lacks its last byte was parsed
\* to Incomplete with needed 1.
C19_Witness ==
    /\ WasParsed /\ codec = "VlessRequestHeader" /\ Len(buffer) > 22
    /\ buffer[22] = 2 /\ Len(buffer) = 23 + buffer[23] - 1
    /\ parsed = Incomplete(1)

\* the buffer starts with a complete domain address encoding (at offset
\* `at`) whose domain bytes are not valid UTF-8
BadUtf8DomainAt(at) ==
    /\ Len(buffer) >= at + 2
    /\ buffer[at + 1] = 2
    /\ Len(buffer) >= at + 2 + buffer[at + 2]
    /\ ~from_utf8_ok(SubSeq(buffer, at + 3, at + 2 + buffer[at + 2]))

\* C20: a complete domain address encoding whose domain bytes are not valid
\* UTF-8 makes the address parsers return an error value, which
\* VlessRequestHeader::parse surfaces as InvalidAddress; no parser aborts.
C20_BadUtf8IsAnError ==
    WasParsed
    => /\ (codec = "ProxyAddress" /\ Len(buffer) >= 3 /\ BadUtf8DomainAt(0))
            => parsed.kind = "Error"
       /\ (codec = "ProxyAddressWithPort" /\ Len(buffer) >= 3 /\ BadUtf8DomainAt(2))
            => parsed.kind = "Error"
       /\ (codec = "VlessRequestHeader" /\ Len(buffer) >= 19
             /\ buffer[1] = 0 /\ buffer[18] = 0 /\ buffer[19] \in {1, 2}
             /\ Len(buffer) >= 22 /\ BadUtf8DomainAt(21))
            => parsed = ParseError("InvalidAddress")

\* user ids a client may present
AnyUsers == Users \cup {[i \in 1..16 |-> 255], <<116, 101, 115, 116>> \o [i \in 1..12 |-> 0]}

\* buf with its bytes 1..17 (the user id, as far as it is there) taken from u
WithUser(buf, u) == [i \in 1..Len(buf) |-> IF i \in 2..17 THEN u[i - 1] ELSE buf[i]]

\* C21: whatever user id stands in bytes 1..17 of a request buffer,
\* VlessRequestHeader::parse returns the same kind of outcome, the same
\* needed or error, and the same command, destination and size; a parsed
\* header carries the id it was given.
C21_AnyUserAccepted ==
    (WasParsed /\ codec = "VlessRequestHeader")
    => \A u \in AnyUsers :
          LET other == VlessRequestHeader_parse(WithUser(buffer, u))
          IN  /\ other.kind = parsed.kind
              /\ other.size = parsed.size
              /\ other.needed = parsed.needed
              /\ other.error = parsed.error
              /\ parsed.kind = "Parsed"
                    => /\ other.value.command = parsed.value.command
                       /\ other.value.address = parsed.value.address
                       /\ other.value.user = u
                       /\ parsed.value.user = SubSeq(buffer, 2, 17)

\* C21 witness: a Tcp request header was parsed whose user id is not the
\* identity the server was created with.
C21_Witness ==
    /\ WasParsed /\ codec = "VlessRequestHeader"
    /\ parsed.kind = "Parsed" /\ parsed.value.command = "Tcp"
    /\ parsed.value.user = [i \in 1..16 |-> 16 * i - 1]

\* bytes that may follow a buffer: k bytes that start like an address, a
\* length byte or a command byte and go on with zeros
Fillers(k) == {[i \in 1..k |-> IF i = 1 THEN a ELSE IF i = 2 THEN b ELSE 0] :
                  a \in 0..3, b \in 0..3}

\* C23: needed is a lower bound: when a parser returns Incomplete{needed} for
\* a buffer, no extension of the buffer by fewer than needed bytes parses to
\* Parsed.
C23_NeededIsLowerBound ==
    (WasParsed /\ parsed.kind = "Incomplete")
    => \A k \in 0..(parsed.needed - 1) : \A x \in Fillers(k) :
          ParseBy(codec, buffer \o x).kind # "Parsed"

\* C23 witness: 17 bytes of a request header were parsed to Incomplete with
\* needed 2, and one more byte must not (and does not) complete it.
C23_Witness ==
    /\ WasParsed /\ codec = "VlessRequestHeader" /\ Len(buffer) = 17
    /\ parsed = Incomplete(2)

\* longest extension appended to a parsed buffer
MaxExtension == 2

\* C27: parse results are stable under appended bytes: a buffer that parses
\* to Parsed{v, n} or to Error(e) parses to the same result with any bytes
\* appended, so whichever prefix of the client's bytes the driver has read
\* when the parser first answers Parsed or Error, it obtains the header and
\* consumed length (or the error) that the longer buffer gives.
C27_StableUnderAppend ==
    WasParsed
    => /\ parsed.kind \in {"Parsed", "Error"}
            => \A k \in 0..MaxExtension : \A x \in Fillers(k) :
                  ParseBy(codec, buffer \o x) = parsed
       /\ \A p \in Prefixes(buffer) :
              ParseBy(codec, p).kind \in {"Parsed", "Error"}
              => ParseBy(codec, p) = parsed

\* C27 witness: a request header arrived with a byte after it and was parsed
\* to a header that consumed all but that byte.
C27_Witness ==
    /\ WasParsed /\ codec = "VlessRequestHeader"
    /\ parsed.kind = "Parsed" /\ parsed.size = Len(buffer) - 1
    /\ parsed.value.command = "Tcp"

\* ------------------------------------------------------------------------
\* One connection: the byte-stream driver VlessProtocol::handle with the
\* relay proxy(), and the message-stream driver handle_stream_sink with the
\* relay proxy_sink_stream().  The client would send `request`; the target
\* would send TargetStream; either may stop early, and any transport call
\* may fail.
\* ------------------------------------------------------------------------
HeaderBufferSize == 1024     \* let mut buffer = [0u8; 1024]

ProxyBufferSize == 4096      \* vec![0; 4096]

SinkBufferSize == 1024       \* &mut [0; 1024]

Min(a, b) == IF a < b THEN a ELSE b

\* outcomes of a read / of Stream::next
Data(n) == [kind |-> "Data", n |-> n]

Eof == [kind |-> "Eof", n |-> 0]

ReadErr == [kind |-> "Err", n |-> 0]

DriverUser == [i \in 1..16 |-> 16 * i - 1]

DriverHeaders ==
    {RequestHeader(AddressWithPort(IPv4(<<192, 168, 1, 1>>), 443), DriverUser, "Tcp"),
     RequestHeader(AddressWithPort(Domain(Letters(1)), 443), DriverUser, "Udp")}

Encoding(v) == VlessRequestHeader_form(v, FreshBuffer(VlessRequestHeader_size(v))).buffer

ClientPayload == [i \in 1..MaxPayload |-> 9 + i]

TargetStream == [i \in 1..MaxTarget |-> 19 + i]

DriverRequests == {Encoding(v) \o ClientPayload : v \in DriverHeaders}

\* what DNS may answer
Resolutions == {<<>>, <<"addr1">>, <<"addr1", "addr2">>}

\* what a read of at most `room` bytes of the client's stream may return
ClientReads(room) ==
    {Eof, ReadErr}
    \cup (IF clientEof THEN {}
          ELSE {Data(n) : n \in 1..Min(Len(request) - clientRead, room)})

\* what a read of at most `room` bytes of the target's stream may return
TargetReads(room) ==
    {Eof, ReadErr} \cup {Data(n) : n \in 1..Min(Len(TargetStream) - targetRead, room)}

\* what a plain writer may answer to a write of `bytes` that the task waits on
WriteOutcomes(bytes) ==
    {IoErr} \cup (IF bytes = <<>> THEN {Ready(0)} ELSE {Ready(n) : n \in 1..Len(bytes)})

\* a single write where write_all is meant: the first accepted count ends it
write_once_poll(buf, ret) ==
    IF ret.kind = "Ready" THEN
        [status |-> "done", n |-> Min(ret.n, Len(buf)),
         buf |-> SubSeq(buf, Min(ret.n, Len(buf)) + 1, Len(buf))]
    ELSE IF ret.kind = "Pending" THEN [status |-> "more", n |-> 0, buf |-> buf]
    ELSE [status |-> "err", n |-> 0, buf |-> buf]

\* one poll of tokio's write_all over buf, the writer having returned ret
write_all_poll(buf, ret) ==
    IF ret.kind = "Ready" THEN
        IF ret.n > Len(buf) THEN [status |-> "panic", n |-> 0, buf |-> buf]
        ELSE IF ret.n = 0 THEN [status |-> "err", n |-> 0, buf |-> buf]
        ELSE [status |-> IF ret.n = Len(buf) THEN "done" ELSE "more",
              n |-> ret.n, buf |-> SubSeq(buf, ret.n + 1, Len(buf))]
    ELSE IF ret.kind = "Pending" THEN [status |-> "more", n |-> 0, buf |-> buf]
    ELSE [status |-> "err", n |-> 0, buf |-> buf]

\* the closure handle_stream_sink gives to Sink::with
with_first(isFirst, msg) == IF isFirst THEN <<0, 0>> \o msg ELSE msg

\* an arm of select! without its `if n == 0` test: a read of 0 bytes is written
\* like any chunk
ProxyOnRead_NoEofTest(r, write, shutdown) ==
    IF r.kind \in {"Data", "Eof"} THEN write ELSE "done"

\* an arm of select! in proxy(): where the relay goes with the read's result
\* (`let n = n?; if n == 0 { shutdown; return } write_all`)
ProxyOnRead(r, write, shutdown) ==
    IF r.kind = "Data" THEN write ELSE IF r.kind = "Eof" THEN shutdown ELSE "done"

\* what proxy() returns after `shutdown().await?`
ProxyAfterShutdown(ok) == IF ok THEN "ok" ELSE "err"

\* the pc and result after a write_all poll that leaves the loop at `back`
PcAfter(status, here, back) ==
    IF status = "done" THEN back ELSE IF status = "more" THEN here ELSE "done"

ResultAfter(status) ==
    IF status \in {"done", "more"} THEN "running" ELSE status

DriverStart ==
    /\ transport \in {"tcp", "ws"}
    /\ request \in DriverRequests
    /\ pc = IF transport = "tcp" THEN "parse" ELSE "ws_first"
    /\ result = "running"
    /\ inbuf = <<>>
    /\ clientRead = 0
    /\ clientEof = FALSE
    /\ header = NoResult
    /\ host = <<>>
    /\ wbuf = <<>>
    /\ targetRead = 0
    /\ targetSeen = <<>>
    /\ clientMsgs = <<>>
    /\ first = TRUE
    /\ closed = [in |-> FALSE, out |-> FALSE]
    /\ taken = [in |-> <<>>, out |-> <<>>]
    /\ acked = [in |-> <<>>, out |-> <<>>]
    /\ eof = "none"
    /\ selects = 0
    /\ stalls = 0

\* ---- VlessProtocol::handle: the header loop ----
\* match VlessRequestHeader::parse(&buffer[0..offset])
TcpParse ==
    LET r == VlessRequestHeader_parse(inbuf)
    IN  /\ transport = "tcp" /\ pc = "parse"
        /\ header' = IF r.kind = "Parsed" THEN r ELSE header
        /\ pc' = IF r.kind = "Incomplete" THEN "hdr_read"
                 ELSE IF r.kind = "Parsed" THEN "lookup" ELSE "done"
        /\ result' = IF r.kind = "Error" THEN "err"
                     ELSE IF r.kind = "Abort" THEN "panic" ELSE "running"
        /\ UNCHANGED <<serverVars, codecVars, unsent,
                      orig_size, accepted, prepend, appDone, retryLen, lastCall, calls,
                      aphase, transport, request, inbuf, clientRead, clientEof, host,
                      wbuf, targetRead, targetSeen, clientMsgs, first, closed, taken,
                      acked, eof, selects, stalls>>

\* let s = in_rd.read(&mut buffer[offset..]).await?; offset += s
TcpHeaderRead(r) ==
    /\ transport = "tcp" /\ pc = "hdr_read"
    /\ r \in ClientReads(HeaderBufferSize - Len(inbuf))
    /\ inbuf' = inbuf \o SubSeq(request, clientRead + 1, clientRead + r.n)
    /\ clientRead' = clientRead + r.n
    /\ clientEof' = (clientEof \/ r.kind = "Eof")
    /\ pc' = IF r.kind = "Err" THEN "done" ELSE "parse"
    /\ result' = IF r.kind = "Err" THEN "err" ELSE "running"
    /\ UNCHANGED <<serverVars, codecVars, unsent, orig_size,
                  accepted, prepend, appDone, retryLen, lastCall, calls, aphase,
                  transport, request, header, host, wbuf, targetRead, targetSeen,
                  clientMsgs, first, closed, taken, acked, eof, selects, stalls>>

\* ---- both drivers: resolve, connect, write the leftover ----
\* let host = header.address.lookup_host().await?[0]
Lookup(ok, found) ==
    /\ pc = "lookup"
    /\ host' = IF ok /\ found # <<>> THEN <<found[1]>> ELSE host
    /\ pc' = IF ok /\ found # <<>> THEN "connect" ELSE "done"
    /\ result' = IF ~ok THEN "err" ELSE IF found = <<>> THEN "panic" ELSE "running"
    /\ UNCHANGED <<serverVars, codecVars, unsent, orig_size,
                  accepted, prepend, appDone, retryLen, lastCall, calls, aphase,
                  transport, request, inbuf, clientRead, clientEof, header, wbuf,
                  targetRead, targetSeen, clientMsgs, first, closed, taken, acked, eof,
                  selects, stalls>>

\* let stream = TcpStream::connect(&host).await?
Connect(ok) ==
    /\ pc = "connect"
    /\ pc' = IF ok THEN "leftover" ELSE "done"
    /\ result' = IF ok THEN "running" ELSE "err"
    /\ UNCHANGED <<serverVars, codecVars, unsent, orig_size,
                  accepted, prepend, appDone, retryLen, lastCall, calls, aphase,
                  transport, request, inbuf, clientRead, clientEof, header, host, wbuf,
                  targetRead, targetSeen, clientMsgs, first, closed, taken, acked, eof,
                  selects, stalls>>

\* out_wr.write(&buffer[len..offset]).await?, then the client's write half is
\* wrapped (UnsendDataWrite::new / in_wr.with) and the relay is entered
WriteLeftover(w) ==
    LET leftover == SubSeq(inbuf, header.size + 1, Len(inbuf))
        wrapped == UnsendDataWrite_new(Some(<<0, 0>>))
    IN  /\ pc = "leftover"
        /\ w \in WriteOutcomes(leftover)
        /\ targetSeen' = targetSeen \o SubSeq(leftover, 1, w.n)
        /\ unsent' = IF w.kind = "Ready" /\ transport = "tcp" THEN wrapped.unsent ELSE unsent
        /\ orig_size' = IF w.kind = "Ready" /\ transport = "tcp"
                        THEN wrapped.orig_size ELSE orig_size
        /\ first' = TRUE
        /\ selects' = IF w.kind = "Ready" THEN selects + 1 ELSE selects
        /\ pc' = IF w.kind # "Ready" THEN "done"
                 ELSE IF transport = "tcp" THEN "select" ELSE "ws_select"
        /\ result' = IF w.kind = "Ready" THEN "running" ELSE "err"
        /\ UNCHANGED <<serverVars, codecVars, accepted,
                      prepend, appDone, retryLen, lastCall, calls, aphase, transport,
                      request, inbuf, clientRead, clientEof, header, host, wbuf,
                      targetRead, clientMsgs, closed, taken, acked, eof, stalls>>

\* ---- proxy(): the byte-stream relay ----
\* n = in_rd.read(&mut buf_in) completes first
ProxyReadIn(r) ==
    LET chunk == SubSeq(request, clientRead + 1, clientRead + r.n)
    IN  /\ pc = "select"
        /\ r \in ClientReads(ProxyBufferSize)
        /\ clientRead' = clientRead + r.n
        /\ clientEof' = (clientEof \/ r.kind = "Eof")
        /\ taken' = [taken EXCEPT !.in = @ \o chunk]
        /\ wbuf' = chunk
        /\ eof' = IF r.kind = "Eof" THEN "in" ELSE eof
        /\ pc' = ProxyOnRead(r, "write_out", "shutdown_out")
        /\ result' = IF r.kind = "Err" THEN "err" ELSE "running"
        /\ UNCHANGED <<serverVars, codecVars, unsent,
                      orig_size, accepted, prepend, appDone, retryLen, lastCall, calls,
                      aphase, transport, request, inbuf, header, host, targetRead,
                      targetSeen, clientMsgs, first, closed, acked, selects, stalls>>

\* out_wr.write_all(&buf_in[..n]).await?: one write the target socket answers
ProxyWriteOut(w) ==
    LET step == write_all_poll(wbuf, w)
    IN  /\ pc = "write_out"
        /\ w \in WriteOutcomes(wbuf)
        /\ targetSeen' = targetSeen \o SubSeq(wbuf, 1, w.n)
        /\ acked' = [acked EXCEPT !.in = @ \o SubSeq(wbuf, 1, step.n)]
        /\ wbuf' = step.buf
        /\ selects' = IF step.status = "done" THEN selects + 1 ELSE selects
        /\ pc' = PcAfter(step.status, "write_out", "select")
        /\ result' = ResultAfter(step.status)
        /\ UNCHANGED <<serverVars, codecVars, unsent,
                      orig_size, accepted, prepend, appDone, retryLen, lastCall, calls,
                      aphase, transport, request, inbuf, clientRead, clientEof, header,
                      host, targetRead, clientMsgs, first, closed, taken, eof, stalls>>

\* out_wr.shutdown().await?; return Ok(())
ProxyShutdownOut(ok) ==
    /\ pc = "shutdown_out"
    /\ closed' = [closed EXCEPT !.out = ok]
    /\ pc' = "done"
    /\ result' = ProxyAfterShutdown(ok)
    /\ UNCHANGED <<serverVars, codecVars, unsent, orig_size,
                  accepted, prepend, appDone, retryLen, lastCall, calls, aphase,
                  transport, request, inbuf, clientRead, clientEof, header, host, wbuf,
                  targetRead, targetSeen, clientMsgs, first, taken, acked, eof, selects,
                  stalls>>

\* n = out_rd.read(&mut buf_out) completes first
ProxyReadOut(r) ==
    LET chunk == SubSeq(TargetStream, targetRead + 1, targetRead + r.n)
    IN  /\ pc = "select"
        /\ r \in TargetReads(ProxyBufferSize)
        /\ targetRead' = targetRead + r.n
        /\ taken' = [taken EXCEPT !.out = @ \o chunk]
        /\ wbuf' = chunk
        /\ eof' = IF r.kind = "Eof" THEN "out" ELSE eof
        /\ pc' = ProxyOnRead(r, "write_in", "shutdown_in")
        /\ result' = IF r.kind = "Err" THEN "err" ELSE "running"
        /\ UNCHANGED <<serverVars, codecVars, unsent,
                      orig_size, accepted, prepend, appDone, retryLen, lastCall, calls,
                      aphase, transport, request, inbuf, clientRead, clientEof, header,
                      host, targetSeen, clientMsgs, first, closed, acked, selects,
                      stalls>>

\* in_wr.write_all(&buf_out[..n]).await?: one poll of the adapter, the client
\* socket answering `inner`
ProxyWriteIn(inner) ==
    LET self == [unsent |-> unsent, orig_size |-> orig_size]
        shown == Presented(self, wbuf)
        after == UnsendDataWrite_poll_write(self, wbuf, inner)
        step == write_all_poll(wbuf, after.ret)
    IN  /\ pc = "write_in"
        /\ inner \in InnerOutcomes(shown)
        /\ inner.kind = "Pending" => unsent.some /\ stalls < MaxStalls
        /\ stalls' = IF inner.kind = "Pending" THEN stalls + 1 ELSE stalls
        /\ unsent' = after.unsent
        /\ orig_size' = after.orig_size
        /\ accepted' = accepted \o SubSeq(shown, 1, inner.n)
        /\ acked' = [acked EXCEPT !.out = @ \o SubSeq(wbuf, 1, step.n)]
        /\ wbuf' = step.buf
        /\ selects' = IF step.status = "done" THEN selects + 1 ELSE selects
        /\ pc' = PcAfter(step.status, "write_in", "select")
        /\ result' = ResultAfter(step.status)
        /\ UNCHANGED <<serverVars, codecVars, prepend,
                      appDone, retryLen, lastCall, calls, aphase, transport, request,
                      inbuf, clientRead, clientEof, header, host, targetRead, targetSeen,
                      clientMsgs, first, closed, taken, eof>>

\* in_wr.shutdown().await?; return Ok(()): the adapter's poll_shutdown goes
\* straight to the client socket
ProxyShutdownIn(ok) ==
    /\ pc = "shutdown_in"
    /\ closed' = [closed EXCEPT !.in = ok]
    /\ pc' = "done"
    /\ result' = ProxyAfterShutdown(ok)
    /\ UNCHANGED <<serverVars, codecVars, unsent, orig_size,
                  accepted, prepend, appDone, retryLen, lastCall, calls, aphase,
                  transport, request, inbuf, clientRead, clientEof, header, host, wbuf,
                  targetRead, targetSeen, clientMsgs, first, taken, acked, eof, selects,
                  stalls>>

\* ---- handle_stream_sink: the header loop ----
\* what in_rd.next() may return: a message of n bytes, the end, an error
ClientMessages ==
    {Eof, ReadErr} \cup {Data(n) : n \in 1..(Len(request) - clientRead)}

\* let mut data = in_rd.next().await.unwrap_or_else(|| Err(..))?
WsFirst(r) ==
    /\ transport = "ws" /\ pc = "ws_first"
    /\ r \in ClientMessages
    /\ inbuf' = SubSeq(request, clientRead + 1, clientRead + r.n)
    /\ clientRead' = clientRead + r.n
    /\ clientEof' = (r.kind = "Eof")
    /\ pc' = IF r.kind = "Data" THEN "parse" ELSE "done"
    /\ result' = IF r.kind = "Data" THEN "running" ELSE "err"
    /\ UNCHANGED <<serverVars, codecVars, unsent, orig_size,
                  accepted, prepend, appDone, retryLen, lastCall, calls, aphase,
                  transport, request, header, host, wbuf, targetRead, targetSeen,
                  clientMsgs, first, closed, taken, acked, eof, selects, stalls>>

\* match VlessRequestHeader::parse(&data)
WsParse ==
    LET r == VlessRequestHeader_parse(inbuf)
    IN  /\ transport = "ws" /\ pc = "parse"
        /\ header' = IF r.kind = "Parsed" THEN r ELSE header
        /\ pc' = IF r.kind = "Incomplete" THEN "ws_more"
                 ELSE IF r.kind = "Parsed" THEN "lookup" ELSE "done"
        /\ result' = IF r.kind = "Error" THEN "err"
                     ELSE IF r.kind = "Abort" THEN "panic" ELSE "running"
        /\ UNCHANGED <<serverVars, codecVars, unsent,
                      orig_size, accepted, prepend, appDone, retryLen, lastCall, calls,
                      aphase, transport, request, inbuf, clientRead, clientEof, host,
                      wbuf, targetRead, targetSeen, clientMsgs, first, closed, taken,
                      acked, eof, selects, stalls>>

\* let mut more = in_rd.next().await.unwrap_or_else(|| Err(..))?; data.append(&mut more)
WsMore(r) ==
    /\ transport = "ws" /\ pc = "ws_more"
    /\ r \in ClientMessages
    /\ inbuf' = inbuf \o SubSeq(request, clientRead + 1, clientRead + r.n)
    /\ clientRead' = clientRead + r.n
    /\ clientEof' = (r.kind = "Eof")
    /\ pc' = IF r.kind = "Data" THEN "parse" ELSE "done"
    /\ result' = IF r.kind = "Data" THEN "running" ELSE "err"
    /\ UNCHANGED <<serverVars, codecVars, unsent, orig_size,
                  accepted, prepend, appDone, retryLen, lastCall, calls, aphase,
                  transport, request, header, host, wbuf, targetRead, targetSeen,
                  clientMsgs, first, closed, taken, acked, eof, selects, stalls>>

\* ---- proxy_sink_stream(): the message-stream relay ----
\* msg = in_rd.next() completes first
SinkReadIn(r) ==
    LET msg == SubSeq(request, clientRead + 1, clientRead + r.n)
    IN  /\ pc = "ws_select"
        /\ r \in ClientMessages
        /\ clientRead' = clientRead + r.n
        /\ clientEof' = (r.kind = "Eof")
        /\ taken' = [taken EXCEPT !.in = @ \o msg]
        /\ wbuf' = msg
        /\ eof' = IF r.kind = "Eof" THEN "in" ELSE eof
        /\ pc' = IF r.kind = "Data" THEN "ws_write_out" ELSE "done"
        /\ result' = IF r.kind = "Data" THEN "running" ELSE "ok"
        /\ UNCHANGED <<serverVars, codecVars, unsent,
                      orig_size, accepted, prepend, appDone, retryLen, lastCall, calls,
                      aphase, transport, request, inbuf, header, host, targetRead,
                      targetSeen, clientMsgs, first, closed, acked, selects, stalls>>

\* out_wr.write_all(&msg).await.unwrap(): one write the target socket answers
SinkWriteOut(w) ==
    LET step == write_all_poll(wbuf, w)
    IN  /\ pc = "ws_write_out"
        /\ w \in WriteOutcomes(wbuf)
        /\ targetSeen' = targetSeen \o SubSeq(wbuf, 1, w.n)
        /\ acked' = [acked EXCEPT !.in = @ \o SubSeq(wbuf, 1, step.n)]
        /\ wbuf' = step.buf
        /\ selects' = IF step.status = "done" THEN selects + 1 ELSE selects
        /\ pc' = PcAfter(step.status, "ws_write_out", "ws_select")
        /\ result' = IF step.status = "err" THEN "panic" ELSE ResultAfter(step.status)
        /\ UNCHANGED <<serverVars, codecVars, unsent,
                      orig_size, accepted, prepend, appDone, retryLen, lastCall, calls,
                      aphase, transport, request, inbuf, clientRead, clientEof, header,
                      host, targetRead, clientMsgs, first, closed, taken, eof, stalls>>

\* msg = out_rd.read(buf_out_read) completes first
SinkReadOut(r) ==
    LET chunk == SubSeq(TargetStream, targetRead + 1, targetRead + r.n)
    IN  /\ pc = "ws_select"
        /\ r \in TargetReads(SinkBufferSize)
        /\ targetRead' = targetRead + r.n
        /\ taken' = [taken EXCEPT !.out = @ \o chunk]
        /\ wbuf' = chunk
        /\ eof' = IF r.kind = "Eof" THEN "out" ELSE eof
        /\ pc' = IF r.kind = "Data" THEN "ws_send"
                 ELSE IF r.kind = "Eof" THEN "ws_send_close" ELSE "done"
        /\ result' = IF r.kind = "Err" THEN "ok" ELSE "running"
        /\ UNCHANGED <<serverVars, codecVars, unsent,
                      orig_size, accepted, prepend, appDone, retryLen, lastCall, calls,
                      aphase, transport, request, inbuf, clientRead, clientEof, header,
                      host, targetSeen, clientMsgs, first, closed, acked, selects,
                      stalls>>

\* in_wr.send(buf_out_read[..n].to_vec()).await?
SinkSend(ok) ==
    /\ pc = "ws_send"
    /\ clientMsgs' = IF ok THEN Append(clientMsgs, with_first(first, wbuf)) ELSE clientMsgs
    /\ first' = FALSE
    /\ acked' = [acked EXCEPT !.out = IF ok THEN @ \o wbuf ELSE @]
    /\ wbuf' = <<>>
    /\ selects' = IF ok THEN selects + 1 ELSE selects
    /\ pc' = IF ok THEN "ws_select" ELSE "done"
    /\ result' = IF ok THEN "running" ELSE "err"
    /\ UNCHANGED <<serverVars, codecVars, unsent, orig_size,
                  accepted, prepend, appDone, retryLen, lastCall, calls, aphase,
                  transport, request, inbuf, clientRead, clientEof, header, host,
                  targetRead, targetSeen, closed, taken, eof, stalls>>

\* in_wr.send(vec![]).await?; break
SinkSendClose(ok) ==
    /\ pc = "ws_send_close"
    /\ clientMsgs' = IF ok THEN Append(clientMsgs, with_first(first, <<>>)) ELSE clientMsgs
    /\ first' = FALSE
    /\ closed' = [closed EXCEPT !.in = ok]
    /\ pc' = "done"
    /\ result' = IF ok THEN "ok" ELSE "err"
    /\ UNCHANGED <<serverVars, codecVars, unsent, orig_size,
                  accepted, prepend, appDone, retryLen, lastCall, calls, aphase,
                  transport, request, inbuf, clientRead, clientEof, header, host, wbuf,
                  targetRead, targetSeen, taken, acked, eof, selects, stalls>>

DriverNext ==
    \/ TcpParse
    \/ \E r \in {Eof, ReadErr} \cup {Data(n) : n \in 1..Len(request)} : TcpHeaderRead(r)
    \/ \E ok \in BOOLEAN, found \in Resolutions : Lookup(ok, found)
    \/ \E ok \in BOOLEAN : Connect(ok)
    \/ \E w \in {IoErr} \cup {Ready(n) : n \in 0..Len(request)} : WriteLeftover(w)
    \/ \E r \in {Eof, ReadErr} \cup {Data(n) : n \in 1..Len(request)} : ProxyReadIn(r)
    \/ \E w \in {IoErr} \cup {Ready(n) : n \in 1..Len(wbuf)} : ProxyWriteOut(w)
    \/ \E ok \in BOOLEAN : ProxyShutdownOut(ok)
    \/ \E r \in {Eof, ReadErr} \cup {Data(n) : n \in 1..Len(TargetStream)} : ProxyReadOut(r)
    \/ \E inner \in {Pending, IoErr} \cup {Ready(n) : n \in 1..(Len(unsent.bytes) + Len(wbuf))} :
          ProxyWriteIn(inner)
    \/ \E ok \in BOOLEAN : ProxyShutdownIn(ok)
    \/ \E r \in {Eof, ReadErr} \cup {Data(n) : n \in 1..Len(request)} : WsFirst(r)
    \/ WsParse
    \/ \E r \in {Eof, ReadErr} \cup {Data(n) : n \in 1..Len(request)} : WsMore(r)
    \/ \E r \in {Eof, ReadErr} \cup {Data(n) : n \in 1..Len(request)} : SinkReadIn(r)
    \/ \E w \in {IoErr} \cup {Ready(n) : n \in 1..Len(wbuf)} : SinkWriteOut(w)
    \/ \E r \in {Eof, ReadErr} \cup {Data(n) : n \in 1..Len(TargetStream)} : SinkReadOut(r)
    \/ \E ok \in BOOLEAN : SinkSend(ok)
    \/ \E ok \in BOOLEAN : SinkSendClose(ok)

DriverInit == DriverStart /\ CodecIdle /\ AdapterIdle /\ ServerIdle

SpecDriver == DriverInit /\ [][DriverNext]_vars

\* ------------------------------------------------------------------------
\* Claims about a connection (checked under SpecDriver)
\* ------------------------------------------------------------------------
RECURSIVE Flatten(_)
Flatten(msgs) == IF msgs = <<>> THEN <<>> ELSE Head(msgs) \o Flatten(Tail(msgs))

\* every byte the client has observed, in order
ClientSaw == IF transport = "tcp" THEN accepted ELSE Flatten(clientMsgs)

\* the client's bytes that follow the ones the header loop consumed
AfterHeaderLoop == SubSeq(request, Len(inbuf) + 1, Len(request))

IsSuffix(s, t) == Len(s) <= Len(t) /\ SubSeq(t, Len(t) - Len(s) + 1, Len(t)) = s

\* C2: on both drivers the response header {0x00,0x00} is emitted exactly
\* once, first, and before anything else the client observes, the close
\* signal included.
C2_HeaderOnceBeforeAll ==
    transport # "off"
    => /\ \A i \in 1..Len(ClientSaw) : (ClientSaw[i] = 0) = (i <= 2)
       /\ closed.in => Len(ClientSaw) >= 2

\* C9 as stated: once a read returned 0 in proxy(), the relay shuts the
\* opposite write half down and returns Ok.
C9_EofThenOk ==
    (transport = "tcp" /\ eof # "none" /\ pc = "done")
    => /\ result = "ok"
       /\ IF eof = "in" THEN closed.out ELSE closed.in

\* C9 as amended: once a read returned 0 in proxy(), the relay calls shutdown
\* on the opposite write half and returns Ok if that shutdown succeeded and
\* its error otherwise; from the EOF on no read is issued and no byte is read
\* or written on any half.
C9_EofThenShutdownThenReturn ==
    /\ [](transport = "tcp"
          => /\ eof = "in" => pc \in {"shutdown_out", "done"} /\ ~closed.in
             /\ eof = "out" => pc \in {"shutdown_in", "done"} /\ ~closed.out
             /\ (eof = "in" /\ pc = "done")
                    => result = IF closed.out THEN "ok" ELSE "err"
             /\ (eof = "out" /\ pc = "done")
                    => result = IF closed.in THEN "ok" ELSE "err")
    /\ [][(transport = "tcp" /\ eof # "none")
          => /\ selects' = selects
             /\ clientRead' = clientRead /\ targetRead' = targetRead
             /\ taken' = taken /\ acked' = acked
             /\ targetSeen' = targetSeen /\ accepted' = accepted]_vars

\* C9 witness: the client's EOF arrived after data was relayed, the target's
\* write half was shut down and proxy() returned Ok.
C9_Witness ==
    /\ transport = "tcp" /\ pc = "done" /\ result = "ok"
    /\ eof = "in" /\ closed.out /\ taken.in # <<>>

\* C10: in proxy(), in each direction, the bytes the write half has taken are
\* the chunks its read half returned, in read order (a run of the peer's
\* stream); while a chunk is being written the rest of it is all that is
\* outstanding, and when the reads are issued nothing is outstanding.
C10_FifoChunkByChunk ==
    transport = "tcp"
    => /\ IsPrefix(taken.in, AfterHeaderLoop) \/ pc \in {"parse", "hdr_read"}
       /\ IsPrefix(taken.out, TargetStream)
       /\ IsPrefix(acked.in, taken.in) /\ IsPrefix(acked.out, taken.out)
       /\ IsSuffix(acked.in, targetSeen)
       /\ pc = "write_out" => wbuf # <<>> /\ acked.in \o wbuf = taken.in
       /\ pc = "write_in" => wbuf # <<>> /\ acked.out \o wbuf = taken.out
       /\ pc = "select" => acked = taken

\* C10 witness: both streams went through the relay in several chunks and the
\* relay is issuing its reads again.
C10_Witness ==
    /\ transport = "tcp" /\ pc = "select"
    /\ taken.in = ClientPayload /\ taken.out = TargetStream
    /\ acked = taken
    /\ selects >= 4

\* C11: when the client's transport ends before a complete request header has
\* arrived, the driver (byte-stream or message-stream) has terminated with a
\* failure and has opened no outbound connection.
C11_EofBeforeHeaderFails ==
    (transport # "off" /\ clientEof /\ header.kind # "Parsed")
    => pc = "done" /\ result = "err" /\ host = <<>>

\* the bytes the header loop received after the header: buffer[len..offset]
Leftover == SubSeq(inbuf, header.size + 1, Len(inbuf))

\* every byte the client sent after the header
AfterHeader == SubSeq(request, header.size + 1, Len(request))

\* C12: once the relay has been entered, the outbound peer has received every
\* leftover byte, in order and ahead of every client byte the relay read
\* later, however many bytes the outbound writer accepts per write.
C12_LeftoverDeliveredFirst ==
    (transport # "off" /\ selects > 0)
    => /\ IsPrefix(Leftover, targetSeen)
       /\ IsPrefix(targetSeen, AfterHeader)

\* a step of either relay in which a read, a write, a send or a shutdown
\* fails with a transport error
RelayTransportError ==
    \/ ProxyReadIn(ReadErr) \/ ProxyReadOut(ReadErr)
    \/ ProxyWriteOut(IoErr) \/ ProxyWriteIn(IoErr)
    \/ ProxyShutdownOut(FALSE) \/ ProxyShutdownIn(FALSE)
    \/ SinkReadIn(ReadErr) \/ SinkReadOut(ReadErr)
    \/ SinkWriteOut(IoErr)
    \/ SinkSend(FALSE) \/ SinkSendClose(FALSE)

\* C13: in both relays a transport error on a read or a write ends the relay
\* and is returned to the caller as an error: the relay returns neither Ok
\* nor aborts the task.
C13_TransportErrorReturned ==
    [][RelayTransportError => pc' = "done" /\ result' = "err"]_vars

\* C14: in the message-stream driver, when the outbound read half has reached
\* EOF and the close signal has gone out, the relay loop has exited and the
\* last message the client received is the empty message, whether or not
\* target data was relayed before.
C14_CloseSignalIsEmpty ==
    (transport = "ws" /\ eof = "out" /\ closed.in)
    => /\ pc = "done"
       /\ clientMsgs # <<>>
       /\ clientMsgs[Len(clientMsgs)] = <<>>

\* ------------------------------------------------------------------------
\* The server: main() awaits, in one select!, run_vless_over_tcp and
\* run_vless_over_tungstenite_ws (and the static file server and Ctrl-C);
\* each accept loop spawns one task per connection.
\* ------------------------------------------------------------------------
MaxConns == 2           \* connections each listener accepts

Loops == {"tcp", "ws"}

\* what a connection task may end with: handle / handle_stream_sink returns
\* Ok or Err (logged by unwrap_or_else), or the task panics
TaskOutcomes == {"ok", "err", "panic"}

\* the loop is still serving its listener
Serving(l) == loops[l] \in {"bind", "accept", "handshake"}

ServerStart ==
    /\ mainState = "select"
    /\ loops = [tcp |-> "bind", ws |-> "bind"]
    /\ conns = [tcp |-> 0, ws |-> 0]
    /\ tasks = [tcp |-> 0, ws |-> 0]
    /\ failures = 0
    /\ listenerFailed = FALSE

\* let tcp_listener = TcpListener::bind(..).await?
Bind(l, ok) ==
    /\ mainState = "select" /\ loops[l] = "bind"
    /\ loops' = [loops EXCEPT ![l] = IF ok THEN "accept" ELSE "returned_err"]
    /\ listenerFailed' = (listenerFailed \/ ~ok)
    /\ UNCHANGED <<mainState, conns, tasks, failures, codecVars, adapterVars, driverVars>>

\* while let Ok((incoming, addr)) = tcp_listener.accept().await { .. } Ok(())
\* (the tcp loop spawns the connection's task at once, the ws loop first
\* awaits the handshake)
Accept(l, ok) ==
    /\ mainState = "select" /\ loops[l] = "accept"
    /\ conns[l] < MaxConns
    /\ conns' = IF ok THEN [conns EXCEPT ![l] = @ + 1] ELSE conns
    /\ tasks' = IF ok /\ l = "tcp" THEN [tasks EXCEPT ![l] = @ + 1] ELSE tasks
    /\ loops' = [loops EXCEPT ![l] = IF ~ok THEN "returned_ok"
                                     ELSE IF l = "ws" THEN "handshake" ELSE "accept"]
    /\ listenerFailed' = (listenerFailed \/ ~ok)
    /\ UNCHANGED <<mainState, failures, codecVars, adapterVars, driverVars>>

\* let ws_stream = accept_hdr_async(incoming, cb).await?; tokio::spawn(..)
Handshake(ok) ==
    /\ mainState = "select" /\ loops["ws"] = "handshake"
    /\ loops' = [loops EXCEPT !["ws"] = IF ok THEN "accept" ELSE "returned_err"]
    /\ tasks' = IF ok THEN [tasks EXCEPT !["ws"] = @ + 1] ELSE tasks
    /\ failures' = IF ok THEN failures ELSE failures + 1
    /\ UNCHANGED <<mainState, conns, listenerFailed, codecVars, adapterVars, driverVars>>

\* a spawned task ends: handle(..).await.unwrap_or_else(|e| info!(..)), or a
\* panic that the runtime confines to the task
TaskEnds(l, outcome) ==
    /\ mainState = "select" /\ tasks[l] > 0
    /\ tasks' = [tasks EXCEPT ![l] = @ - 1]
    /\ failures' = IF outcome = "ok" THEN failures ELSE failures + 1
    /\ UNCHANGED <<mainState, loops, conns, listenerFailed, codecVars, adapterVars,
                  driverVars>>

\* an accept loop has returned: its select! arm completes, main returns, and
\* the other loop and every task are dropped with the runtime
MainReturns ==
    /\ mainState = "select"
    /\ \E l \in Loops : loops[l] \in {"returned_ok", "returned_err"}
    /\ mainState' = "exited"
    /\ loops' = [l \in Loops |-> IF Serving(l) THEN "dropped" ELSE loops[l]]
    /\ tasks' = [l \in Loops |-> 0]
    /\ UNCHANGED <<conns, failures, listenerFailed, codecVars, adapterVars, driverVars>>

\* _ = tokio::signal::ctrl_c() => ..
CtrlC ==
    /\ mainState = "select"
    /\ mainState' = "exited"
    /\ loops' = [l \in Loops |-> IF Serving(l) THEN "dropped" ELSE loops[l]]
    /\ tasks' = [l \in Loops |-> 0]
    /\ UNCHANGED <<conns, failures, listenerFailed, codecVars, adapterVars, driverVars>>

ServerNext ==
    \/ \E l \in Loops, ok \in BOOLEAN : Bind(l, ok)
    \/ \E l \in Loops, ok \in BOOLEAN : Accept(l, ok)
    \/ \E ok \in BOOLEAN : Handshake(ok)
    \/ \E l \in Loops, outcome \in TaskOutcomes : TaskEnds(l, outcome)
    \/ MainReturns
    \/ CtrlC

ServerInit == ServerStart /\ CodecIdle /\ AdapterIdle /\ DriverIdle

SpecServer == ServerInit /\ [][ServerNext]_vars

\* C15: as long as no listener call (bind, accept) has failed and main has
\* not been interrupted, both accept loops keep serving, whatever failures
\* single connections have met (parse, DNS, connect and relay errors in a
\* task, a failed WebSocket handshake).
C15_AcceptLoopsSurvive ==
    (mainState = "select" /\ ~listenerFailed) => \A l \in Loops : Serving(l)

\* ------------------------------------------------------------------------
\* Further claims about the adapter (checked under SpecAdapter)
\* ------------------------------------------------------------------------
\* the initial prepend length
PrependLen == IF prepend.some THEN Len(prepend.bytes) ELSE 0

\* how many prepend bytes the inner writer has accepted so far, and had
\* accepted before the last call
PrependDrained == Min(Len(accepted), PrependLen)

PrependDrainedBefore == Min(Len(accepted) - lastCall.inner.n, PrependLen)

\* C22: when the inner writer accepts n bytes of pending ++ caller_buffer, the
\* call returns not-ready while fewer prepend bytes than the initial prepend
\* length have drained in all; otherwise pending is cleared and the call
\* returns n minus the prepend bytes sent in this call.
C22_WriteAccounting ==
    (aphase # "off" /\ calls > 0 /\ lastCall.inner.kind = "Ready"
        /\ Len(lastCall.shown) > lastCall.len)
    => IF PrependDrained < PrependLen THEN lastCall.ret = Pending
       ELSE /\ unsent = None
            /\ lastCall.ret = Ready(lastCall.inner.n - (PrependDrained - PrependDrainedBefore))

\* ------------------------------------------------------------------------
\* Further claims about a connection (checked under SpecDriver)
\* ------------------------------------------------------------------------
\* C24: when, after the header is parsed, the resolution fails or returns no
\* address or the connect fails, the driver has returned an error (the task
\* has not aborted), no relay was started and the client was sent nothing;
\* when the resolution returns addresses, the first is the one connected to.
C24_ResolveConnectFailures ==
    transport # "off"
    => /\ (pc = "done" /\ header.kind = "Parsed" /\ selects = 0)
            => /\ result = "err"
               /\ ClientSaw = <<>> /\ clientMsgs = <<>> /\ ~closed.in
               /\ taken = [in |-> <<>>, out |-> <<>>]
       /\ host # <<>> => host = <<"addr1">>

\* ------------------------------------------------------------------------
\* Further claims about the adapter's returned counts (checked under
\* SpecAdapter)
\* ------------------------------------------------------------------------
\* sum of the counts poll_write has returned to its caller so far
ReturnedTotal == appDone + (IF aphase = "overrun" THEN lastCall.ret.n ELSE 0)

\* number of application (non-prepend) bytes the inner writer has accepted
AppAccepted == Cardinality({i \in DOMAIN accepted : accepted[i] # 0})

\* C25: every count poll_write returns is at most the length of the buffer
\* passed in that call, and the sum of the returned counts never exceeds the
\* number of application bytes the inner writer has accepted.
C25_ReturnedCountsBounded ==
    aphase # "off"
    => /\ lastCall.ret.kind = "Ready" => lastCall.ret.n <= lastCall.len
       /\ ReturnedTotal <= AppAccepted

\* ------------------------------------------------------------------------
\* The two relay directions (checked under SpecDriver)
\* ------------------------------------------------------------------------
\* the relay task is inside the chunk write of the client-to-target arm
WritingOut == pc \in {"write_out", "ws_write_out"} /\ wbuf # <<>>

\* the relay task is inside the chunk write of the target-to-client arm
WritingIn == pc \in {"write_in", "ws_send"} /\ wbuf # <<>>

\* the relay can take bytes the target has sent
CanReadOut ==
    ENABLED (\E n \in 1..Len(TargetStream) : ProxyReadOut(Data(n)) \/ SinkReadOut(Data(n)))

\* the relay can take bytes the client has sent
CanReadIn ==
    ENABLED (\E n \in 1..Len(request) : ProxyReadIn(Data(n)) \/ SinkReadIn(Data(n)))

\* C28: the two relay directions do not block each other: while the chunk
\* write of one direction has not completed, bytes that have arrived on the
\* other read half can still be read by the relay.
C28_DirectionsDoNotBlock ==
    /\ (WritingOut /\ targetRead < Len(TargetStream)) => CanReadOut
    /\ (WritingIn /\ ~clientEof /\ clientRead < Len(request)) => CanReadIn

\* C26: the adapter never returns not-ready on a poll in which the inner
\* writer returned ready (no wake-up is registered for such a poll, so the
\* chunk write would never be polled again and never complete).
C26_NoPendingOnInnerReady ==
    (calls > 0 /\ lastCall.inner.kind = "Ready") => lastCall.ret.kind # "Pending"

====
